---- MODULE Spec2Model ----
(***************************************************************************)
(* Type-checking of closure expressions                                    *)
(* (src/librustc_typeck/check/closure.rs).                                 *)
(*                                                                         *)
(* The module models FnCtxt::check_expr_closure and the functions it       *)
(* calls: the deduction of a signature and a closure kind from the         *)
(* expected type and from the pending obligations, and check_closure,      *)
(* which checks the body and records the result in the type tables.        *)
(*                                                                         *)
(* Option<T> is a sequence of length at most one: None is <<>> and         *)
(* Some(x) is <<x>>.  Types carry no regions, so the region operations     *)
(* of check_closure (anonymize_late_bound_regions,                         *)
(* liberate_late_bound_regions) leave the modelled signatures unchanged.   *)
(***************************************************************************)
EXTENDS Integers, Sequences, FiniteSets, TLC

VARIABLES
    pool,          \* fulfillment_cx.pending_obligations(), in iteration order
    subst,         \* the inference context's type-variable bindings
    stack,         \* closure ids of the check_closure invocations in progress
    pc,            \* per closure id: the position of its invocation
    expectedTy,    \* per closure id: expected.to_option(self)
    expectedSig,   \* per closure id: expected_sig of check_expr_closure
    expectedKind,  \* per closure id: expected_kind / opt_kind
    declSig,       \* per closure id: sig of check_closure (lines 59-66)
    closureGenerics, \* per closure id: the closure's own generic parameters
    closureSubsts, \* per closure id: substs of check_closure (lines 71-76)
    interior,      \* per closure id: check_fn(..).1
    retTy,         \* per closure id: the type check_closure returned
    closure_tys,   \* tables.closure_tys: closure id -> Option<PolyFnSig>
    closure_kinds, \* tables.closure_kinds: closure id -> Option<(kind, None)>
    tablesBorrow,  \* RefCell flag of self.tables: <<>> or <<holder>>
    poolScans,     \* per closure id: number of fulfillment_cx.borrow() scans
    nextTyVar,     \* counter of infcx.next_ty_var
    panicked       \* "none", "span_bug" or "BorrowMutError"

vars == <<pool, subst, stack, pc, expectedTy, expectedSig, expectedKind,
          declSig, closureGenerics, closureSubsts, interior, retTy, closure_tys,
          closure_kinds, tablesBorrow, poolScans, nextTyVar, panicked>>

(***************************************************************************)
(* Bounds of the model.                                                    *)
(***************************************************************************)
MaxPool == 3
NClosures == 2

ClosureIds == 1 .. NClosures

None == <<>>
Some(x) == <<x>>

(***************************************************************************)
(* Types (ty::TypeVariants as far as closure.rs matches on them).          *)
(***************************************************************************)
TyI32 == [k |-> "TyInt"]
TyBool == [k |-> "TyBool"]
TyErr == [k |-> "TyError"]
TyVar(v) == [k |-> "TyInfer", vid |-> v]
TyTuple(tys) == [k |-> "TyTuple", tys |-> tys]
TyFnPtr(sig) == [k |-> "TyFnPtr", sig |-> sig]
TyDynamic(principal, projection_bounds) ==
    [k |-> "TyDynamic", principal |-> principal,
     projection_bounds |-> projection_bounds]
TyClosure(def_id, substs) == [k |-> "TyClosure", def_id |-> def_id, substs |-> substs]
TyGenerator(def_id, substs, int) ==
    [k |-> "TyGenerator", def_id |-> def_id, substs |-> substs, interior |-> int]

\* ty::ClosureKind, declared in the order Fn, FnMut, FnOnce; its derived Ord
\* is the order of declaration.
ClosureKinds == {"Fn", "FnMut", "FnOnce"}
KindOrd(kind) == CASE kind = "Fn" -> 0 [] kind = "FnMut" -> 1 [] kind = "FnOnce" -> 2

\* cmp::min(best, cur): the first argument when the two compare equal.
CmpMin(a, b) == IF KindOrd(b) < KindOrd(a) THEN b ELSE a

\* tcx.lang_items().fn_trait_kind(def_id)
fn_trait_kind(def_id) == IF def_id \in ClosureKinds THEN Some(def_id) ELSE None

\* tcx.mk_fn_sig(inputs, output, variadic, unsafety, abi)
mk_fn_sig(inputs, output, variadic, unsafety, abi) ==
    [inputs |-> inputs, output |-> output, variadic |-> variadic,
     unsafety |-> unsafety, abi |-> abi]

(***************************************************************************)
(* The inference context: shallow_resolve follows the binding of a type    *)
(* variable; resolve_type_vars_if_possible also resolves inside tuples.    *)
(***************************************************************************)
RECURSIVE shallow_resolve(_, _)
shallow_resolve(s, ty) ==
    IF ty.k = "TyInfer" /\ ty.vid \in DOMAIN s /\ s[ty.vid] # None
    THEN shallow_resolve(s, s[ty.vid][1])
    ELSE ty

RECURSIVE resolve_type_vars_if_possible(_, _)
resolve_type_vars_if_possible(s, ty) ==
    LET t == shallow_resolve(s, ty) IN
    IF t.k = "TyTuple"
    THEN TyTuple([i \in 1 .. Len(t.tys) |-> resolve_type_vars_if_possible(s, t.tys[i])])
    ELSE t

(***************************************************************************)
(* Predicates (ty::Predicate).  A projection predicate                     *)
(* <self_ty as trait<arg>>::Output == ty has trait_ref substs              *)
(* [self_ty, arg]; type_at(1) is arg.                                      *)
(***************************************************************************)
Projection(trait, self_ty, arg, ty) ==
    [pred |-> "Projection", def_id |-> trait, self_ty |-> self_ty, arg |-> arg, ty |-> ty]
Trait(trait, self_ty) ==
    [pred |-> "Trait", def_id |-> trait, self_ty |-> self_ty]
OtherPredicate(shape, trait, self_ty) ==
    [pred |-> shape, def_id |-> trait, self_ty |-> self_ty]

\* proj_predicate.to_poly_trait_ref(tcx) and data.to_poly_trait_ref()
to_poly_trait_ref(p) == [def_id |-> p.def_id, self_ty |-> p.self_ty]

\* ExistentialProjection::with_self_ty(tcx, self_ty)
with_self_ty(pb, self_ty) == Projection(pb.def_id, self_ty, pb.arg, pb.ty)

(***************************************************************************)
(* self_type_matches_expected_vid (lines 259-271)                          *)
(***************************************************************************)
self_type_matches_expected_vid(s, trait_ref, expected_vid) ==
    LET self_ty == shallow_resolve(s, trait_ref.self_ty) IN
    IF self_ty.k = "TyInfer" /\ expected_vid = self_ty.vid
    THEN Some(trait_ref)
    ELSE None

(***************************************************************************)
(* deduce_sig_from_projection (lines 218-257)                              *)
(***************************************************************************)
\* A variant that takes a scalar argument type as a one-parameter list.
deduce_sig_scalar_as_parameter(s, projection) ==
    LET trait_ref == to_poly_trait_ref(projection)
        arg_param_ty == resolve_type_vars_if_possible(s, projection.arg)
        ret_param_ty == resolve_type_vars_if_possible(s, projection.ty)
        input_tys == IF arg_param_ty.k = "TyTuple" THEN arg_param_ty.tys
                     ELSE <<arg_param_ty>>
    IN  IF fn_trait_kind(trait_ref.def_id) = None THEN None
        ELSE Some(mk_fn_sig(input_tys, ret_param_ty, FALSE, "Normal", "Rust"))

deduce_sig_from_projection(s, projection) ==
    LET trait_ref == to_poly_trait_ref(projection)
        arg_param_ty == resolve_type_vars_if_possible(s, projection.arg)
        ret_param_ty == resolve_type_vars_if_possible(s, projection.ty)
    IN  IF fn_trait_kind(trait_ref.def_id) = None THEN None
        ELSE IF arg_param_ty.k # "TyTuple" THEN None
        ELSE Some(mk_fn_sig(arg_param_ty.tys, ret_param_ty, FALSE, "Normal", "Rust"))

(***************************************************************************)
(* deduce_expectations_from_obligations (lines 151-214)                    *)
(***************************************************************************)
\* The closure of the first filter_map (lines 161-175).
SigOfObligation(s, obligation, expected_vid) ==
    IF obligation.pred = "Projection"
    THEN IF self_type_matches_expected_vid(s, to_poly_trait_ref(obligation),
                                           expected_vid) # None
         THEN deduce_sig_from_projection(s, obligation)
         ELSE None
    ELSE None

\* filter_map(f).next() over a sequence of Option values (lines 158-176,
\* 135-140): the first Some.
\* A variant that keeps the last Some instead of the first.
RECURSIVE FilterMapLast(_)
FilterMapLast(opts) ==
    IF opts = <<>> THEN None
    ELSE IF opts[Len(opts)] # None THEN opts[Len(opts)]
    ELSE FilterMapLast(SubSeq(opts, 1, Len(opts) - 1))

RECURSIVE FilterMapNext(_)
FilterMapNext(opts) ==
    IF opts = <<>> THEN None
    ELSE IF Head(opts) # None THEN Head(opts)
    ELSE FilterMapNext(Tail(opts))

\* The closure of the second filter_map (lines 185-209).
KindOfObligation(s, obligation, expected_vid) ==
    LET opt_trait_ref ==
            IF obligation.pred \in {"Projection", "Trait"}
            THEN Some(to_poly_trait_ref(obligation))
            ELSE None
        matched ==
            IF opt_trait_ref = None THEN None
            ELSE self_type_matches_expected_vid(s, opt_trait_ref[1], expected_vid)
    IN  IF matched = None THEN None ELSE fn_trait_kind(matched[1].def_id)

\* A variant that folds with cmp::max.
KindFoldStepMax(best, cur) ==
    Some(IF best = None THEN cur ELSE IF CmpMin(best[1], cur) = cur THEN best[1] ELSE cur)

\* The closure of the fold (line 211).
KindFoldStep(best, cur) ==
    Some(IF best = None THEN cur ELSE CmpMin(best[1], cur))

\* filter_map(f).fold(None, step) over a sequence of Option values.
RECURSIVE FilterMapFold(_, _)
FilterMapFold(best, opts) ==
    IF opts = <<>> THEN best
    ELSE IF Head(opts) = None THEN FilterMapFold(best, Tail(opts))
    ELSE FilterMapFold(KindFoldStep(best, Head(opts)[1]), Tail(opts))

\* The result also counts the borrows of fulfillment_cx (line 155).
deduce_expectations_from_obligations(s, obligations, expected_vid) ==
    LET expected_sig ==
            FilterMapNext([i \in 1 .. Len(obligations) |->
                              SigOfObligation(s, obligations[i], expected_vid)])
        expected_kind ==
            FilterMapFold(None, [i \in 1 .. Len(obligations) |->
                                    KindOfObligation(s, obligations[i], expected_vid)])
    IN  [sig |-> expected_sig, kind |-> expected_kind, borrows |-> 1]

(***************************************************************************)
(* deduce_expectations_from_expected_type (lines 126-149)                  *)
(***************************************************************************)
\* A variant whose function-pointer arm also consults the obligations for
\* the kind.
deduce_expectations_fn_ptr_scanning(s, obligations, expected_ty) ==
    CASE expected_ty.k = "TyDynamic" ->
            LET bounds == expected_ty.projection_bounds
                sig == FilterMapNext([i \in 1 .. Len(bounds) |->
                          deduce_sig_from_projection(s, with_self_ty(bounds[i], TyErr))])
                kind == IF expected_ty.principal = None THEN None
                        ELSE fn_trait_kind(expected_ty.principal[1])
            IN  [sig |-> sig, kind |-> kind, borrows |-> 0]
      [] expected_ty.k = "TyInfer" ->
            deduce_expectations_from_obligations(s, obligations, expected_ty.vid)
      [] expected_ty.k = "TyFnPtr" ->
            LET r == deduce_expectations_from_obligations(s, obligations, 1)
            IN  [sig |-> Some(expected_ty.sig),
                 kind |-> IF r.kind = None THEN Some("Fn") ELSE r.kind,
                 borrows |-> r.borrows]
      [] OTHER ->
            [sig |-> None, kind |-> None, borrows |-> 0]

\* A variant whose trait-object arm takes the kind from the trait of the
\* first projection bound instead of the principal.
deduce_expectations_kind_of_bound(s, obligations, expected_ty) ==
    CASE expected_ty.k = "TyDynamic" ->
            LET bounds == expected_ty.projection_bounds
                sig == FilterMapNext([i \in 1 .. Len(bounds) |->
                          deduce_sig_from_projection(s, with_self_ty(bounds[i], TyErr))])
                kind == IF bounds = <<>> THEN None
                        ELSE fn_trait_kind(bounds[1].def_id)
            IN  [sig |-> sig, kind |-> kind, borrows |-> 0]
      [] expected_ty.k = "TyInfer" ->
            deduce_expectations_from_obligations(s, obligations, expected_ty.vid)
      [] expected_ty.k = "TyFnPtr" ->
            [sig |-> Some(expected_ty.sig), kind |-> Some("Fn"), borrows |-> 0]
      [] OTHER ->
            [sig |-> None, kind |-> None, borrows |-> 0]

deduce_expectations_from_expected_type(s, obligations, expected_ty) ==
    CASE expected_ty.k = "TyDynamic" ->
            LET bounds == expected_ty.projection_bounds
                sig == FilterMapNext([i \in 1 .. Len(bounds) |->
                          deduce_sig_from_projection(s, with_self_ty(bounds[i], TyErr))])
                kind == IF expected_ty.principal = None THEN None
                        ELSE fn_trait_kind(expected_ty.principal[1])
            IN  [sig |-> sig, kind |-> kind, borrows |-> 0]
      [] expected_ty.k = "TyInfer" ->
            deduce_expectations_from_obligations(s, obligations, expected_ty.vid)
      [] expected_ty.k = "TyFnPtr" ->
            [sig |-> Some(expected_ty.sig), kind |-> Some("Fn"), borrows |-> 0]
      [] OTHER ->
            [sig |-> None, kind |-> None, borrows |-> 0]

(***************************************************************************)
(* The inputs: pending obligations, bindings, expected types,              *)
(* declarations.                                                           *)
(***************************************************************************)
\* i32, (i32, i32), (bool,), ()
ArgPair == TyTuple(<<TyI32, TyI32>>)

\* The predicates a pool is drawn from.  "Iterator" stands for a trait that
\* is no Fn-family lang item; "ClosureKind" and "Equate" for the predicate
\* shapes that carry no trait reference (their def_id and self_ty fields
\* are what a scan that ignored the shape would read).
Obligations ==
    { Projection("Fn", TyVar(1), ArgPair, TyBool),
      Projection("FnMut", TyVar(1), TyI32, TyBool),
      Projection("FnOnce", TyVar(1), TyVar(3), TyI32),
      Projection("FnMut", TyVar(2), TyTuple(<<TyVar(3)>>), TyVar(3)),
      Projection("Iterator", TyVar(1), TyTuple(<<TyBool>>), TyI32),
      Trait("FnMut", TyVar(1)),
      Trait("FnOnce", TyVar(2)),
      OtherPredicate("ClosureKind", "Fn", TyVar(1)) }

RECURSIVE SeqsUpTo(_, _)
SeqsUpTo(S, n) ==
    IF n = 0 THEN {<<>>}
    ELSE LET shorter == SeqsUpTo(S, n - 1)
         IN  shorter \cup {Append(q, x) : q \in shorter, x \in S}

Pools == SeqsUpTo(Obligations, MaxPool)

\* Bindings of the type variables: variable 1 stays unresolved; variable 2
\* is unresolved, bound to variable 1 or bound to i32; variable 3 is
\* unresolved, bound to a tuple or bound to a scalar.
Substs ==
    { (1 :> None) @@ (2 :> None) @@ (3 :> None),
      (1 :> None) @@ (2 :> Some(TyVar(1))) @@ (3 :> Some(TyTuple(<<TyBool>>))),
      (1 :> None) @@ (2 :> Some(TyI32)) @@ (3 :> Some(TyBool)),
      (1 :> None) @@ (2 :> Some(TyVar(1))) @@ (3 :> None) }

SigI32ToBool == mk_fn_sig(<<TyI32>>, TyBool, FALSE, "Normal", "Rust")
SigUnsafeC == mk_fn_sig(<<TyBool, TyI32>>, TyI32, TRUE, "Unsafe", "C")

\* Bounds of a trait object: an ExistentialProjection has no self type.
ExistentialProjection(trait, arg, ty) == [def_id |-> trait, arg |-> arg, ty |-> ty]

\* What expected.to_option(self) can be.
ExpectedTys ==
    { None,
      Some(TyFnPtr(SigI32ToBool)),
      Some(TyFnPtr(SigUnsafeC)),
      Some(TyVar(1)),
      Some(TyVar(2)),
      Some(TyDynamic(Some("FnOnce"), <<>>)),
      Some(TyDynamic(Some("Fn"),
                     << ExistentialProjection("Fn", TyI32, TyBool),
                        ExistentialProjection("Fn", TyVar(3), TyI32),
                        ExistentialProjection("Fn", ArgPair, TyBool) >>)),
      Some(TyDynamic(Some("Iterator"),
                     << ExistentialProjection("Iterator", ArgPair, TyI32) >>)),
      Some(TyDynamic(None, << ExistentialProjection("FnMut", TyTuple(<<>>), TyI32) >>)),
      Some(TyI32) }

\* hir::FnDecl: an input or the output is Some(type) when it is written and
\* None when it is left to inference.
Decls ==
    { [inputs |-> <<Some(TyI32), None>>, output |-> None],
      [inputs |-> <<>>, output |-> Some(TyBool)] }

\* The closure's own generic parameters (those extend_to fills).
Generics == { <<"Type">>, <<"Region", "Type">> }

\* What check_fn can return as the interior.
Interiors == { None, Some([witness |-> ArgPair]) }

(***************************************************************************)
(* Helpers of check_closure.                                               *)
(***************************************************************************)
\* AstConv::ty_of_closure(self, unsafety, decl, abi, expected_sig): a written
\* type is taken as written; an omitted input takes the expected input at
\* the same position when there is one, an omitted output the expected
\* output; what is still missing becomes a fresh type variable, numbered
\* from next.  The result is never variadic.
HolesBefore(decl, expected_sig, i) ==
    Cardinality({j \in 1 .. (i - 1) :
        /\ decl.inputs[j] = None
        /\ (expected_sig = None \/ j > Len(expected_sig[1].inputs))})

ty_of_closure(unsafety, decl, abi, expected_sig, next) ==
    LET n == Len(decl.inputs)
        input(i) ==
            IF decl.inputs[i] # None THEN decl.inputs[i][1]
            ELSE IF expected_sig # None /\ i <= Len(expected_sig[1].inputs)
                 THEN expected_sig[1].inputs[i]
                 ELSE TyVar(next + HolesBefore(decl, expected_sig, i))
        holes == HolesBefore(decl, expected_sig, n + 1)
        output ==
            IF decl.output # None THEN decl.output[1]
            ELSE IF expected_sig # None THEN expected_sig[1].output
                 ELSE TyVar(next + holes)
        outHole == IF decl.output = None /\ expected_sig = None THEN 1 ELSE 0
    IN  [sig |-> mk_fn_sig([i \in 1 .. n |-> input(i)], output, FALSE, unsafety, abi),
         next |-> next + holes + outHole]

\* Substs::identity_for_item(tcx, tcx.closure_base_def_id(expr_def_id)): the
\* parameters of the enclosing item.
BaseSubsts == << [k |-> "TyParam", idx |-> 0] >>

\* The number of parameters of the given kind among the first i - 1.
CountBefore(generics, kind, i) ==
    Cardinality({j \in 1 .. (i - 1) : generics[j] = kind})

\* A variant whose region callback yields a region instead of span_bug.
ExtendSubstsRegionAccepted(base_substs, generics, next) ==
    [bug |-> FALSE,
     substs |-> base_substs \o
         [i \in 1 .. Len(generics) |->
             IF generics[i] = "Region" THEN [k |-> "ReErased"]
             ELSE TyVar(next + CountBefore(generics, "Type", i))],
     next |-> next + CountBefore(generics, "Type", Len(generics) + 1)]

\* base_substs.extend_to(tcx, expr_def_id, mk_region, mk_type) with the two
\* callbacks of lines 74-75: a region parameter is a span_bug, a type
\* parameter becomes a fresh type variable.
ExtendSubsts(base_substs, generics, next) ==
    IF \E j \in 1 .. Len(generics) : generics[j] = "Region"
    THEN [bug |-> TRUE, substs |-> base_substs, next |-> next]
    ELSE [bug |-> FALSE,
          substs |-> base_substs \o
              [i \in 1 .. Len(generics) |-> TyVar(next + CountBefore(generics, "Type", i))],
          next |-> next + Len(generics)]

\* A variant that records the signature with its inputs as they are.
UntupledSig(sig) ==
    mk_fn_sig(sig.inputs, sig.output, sig.variadic, sig.unsafety, sig.abi)

\* The signature of lines 99-105: one input, the tuple of the inputs.
TupledSig(sig) ==
    mk_fn_sig(<<TyTuple(sig.inputs)>>, sig.output, sig.variadic, sig.unsafety, sig.abi)

Top == stack[Len(stack)]
Pop == SubSeq(stack, 1, Len(stack) - 1)

(***************************************************************************)
(* The state machine.                                                      *)
(***************************************************************************)
NoClosure == [c \in ClosureIds |-> None]

InitClosures ==
    /\ stack = <<>>
    /\ pc = [c \in ClosureIds |-> "idle"]
    /\ expectedTy = NoClosure
    /\ expectedSig = NoClosure
    /\ expectedKind = NoClosure
    /\ declSig = NoClosure
    /\ closureGenerics = NoClosure
    /\ closureSubsts = NoClosure
    /\ interior = NoClosure
    /\ retTy = NoClosure
    /\ closure_tys = NoClosure
    /\ closure_kinds = NoClosure
    /\ tablesBorrow = None
    /\ poolScans = [c \in ClosureIds |-> 0]
    /\ nextTyVar = 4
    /\ panicked = "none"

\* The expression checker calls check_expr_closure once for each closure
\* expression it meets: at top level, or from check_fn in the body of the
\* closure on top of the stack.
ClosureExprReached(c) ==
    /\ pc[c] = "idle"
    /\ IF stack = <<>> THEN TRUE ELSE pc[Top] = "check_fn"

\* check_expr_closure, lines 39-42.  An expected type that is a type
\* variable is an unresolved one: to_option resolves it.
Resolve(c, expected) ==
    /\ panicked = "none"
    /\ ClosureExprReached(c)
    /\ expected # None /\ expected[1].k = "TyInfer" => subst[expected[1].vid] = None
    /\ LET r == IF expected = None
                THEN [sig |-> None, kind |-> None, borrows |-> 0]
                ELSE deduce_expectations_from_expected_type(subst, pool, expected[1])
       IN  /\ expectedSig' = [expectedSig EXCEPT ![c] = r.sig]
           /\ expectedKind' = [expectedKind EXCEPT ![c] = r.kind]
           /\ poolScans' = [poolScans EXCEPT ![c] = @ + r.borrows]
    /\ expectedTy' = [expectedTy EXCEPT ![c] = expected]
    /\ stack' = Append(stack, c)
    /\ pc' = [pc EXCEPT ![c] = "check_closure"]
    /\ UNCHANGED <<pool, subst, declSig, closureGenerics, closureSubsts, interior, retTy,
                   closure_tys, closure_kinds, tablesBorrow, nextTyVar, panicked>>

\* check_closure, lines 58-84, up to the call of check_fn.
CheckClosureEnter(c, decl, generics) ==
    /\ panicked = "none"
    /\ stack # <<>> /\ Top = c
    /\ pc[c] = "check_closure"
    /\ LET t == ty_of_closure("Normal", decl, "RustCall", expectedSig[c], nextTyVar)
           e == ExtendSubsts(BaseSubsts, generics, t.next)
       IN  /\ declSig' = [declSig EXCEPT ![c] = Some(t.sig)]
           /\ closureGenerics' = [closureGenerics EXCEPT ![c] = Some(generics)]
           /\ nextTyVar' = e.next
           /\ IF e.bug
              THEN /\ panicked' = "span_bug"
                   /\ pc' = [pc EXCEPT ![c] = "ice"]
                   /\ UNCHANGED closureSubsts
              ELSE /\ closureSubsts' = [closureSubsts EXCEPT ![c] = Some(e.substs)]
                   /\ pc' = [pc EXCEPT ![c] = "check_fn"]
                   /\ UNCHANGED panicked
    /\ UNCHANGED <<pool, subst, stack, expectedTy, expectedSig, expectedKind,
                   interior, retTy, closure_tys, closure_kinds, poolScans>>

\* A variant that takes the borrow of the tables before check_fn is called.
CheckClosureHoldingBorrow(c, decl, generics) ==
    /\ CheckClosureEnter(c, decl, generics)
    /\ tablesBorrow' = Some(c)

CheckClosure(c, decl, generics) ==
    /\ CheckClosureEnter(c, decl, generics)
    /\ UNCHANGED tablesBorrow

\* A variant without the early return of lines 86-91.
CheckFnReturnsNoEarlyReturn(c, int) ==
    /\ panicked = "none"
    /\ stack # <<>> /\ Top = c
    /\ pc[c] = "check_fn"
    /\ interior' = [interior EXCEPT ![c] = Some(int)]
    /\ pc' = [pc EXCEPT ![c] = "mk_closure"]
    /\ UNCHANGED <<pool, subst, stack, expectedTy, expectedSig, expectedKind, declSig,
                   closureGenerics, closureSubsts, retTy, closure_tys, closure_kinds,
                   tablesBorrow, poolScans, nextTyVar, panicked>>

\* check_fn returns (line 84); lines 86-93: a generator is returned at once.
CheckFnReturns(c, int) ==
    /\ panicked = "none"
    /\ stack # <<>> /\ Top = c
    /\ pc[c] = "check_fn"
    /\ interior' = [interior EXCEPT ![c] = Some(int)]
    /\ IF int # None
       THEN /\ retTy' = [retTy EXCEPT ![c] =
                            Some(TyGenerator(c, closureSubsts[c][1], int[1]))]
            /\ pc' = [pc EXCEPT ![c] = "returned"]
            /\ stack' = Pop
       ELSE /\ pc' = [pc EXCEPT ![c] = "mk_closure"]
            /\ UNCHANGED <<retTy, stack>>
    /\ UNCHANGED <<pool, subst, expectedTy, expectedSig, expectedKind, declSig,
                   closureGenerics, closureSubsts, closure_tys, closure_kinds, tablesBorrow,
                   poolScans, nextTyVar, panicked>>

\* self.tables.borrow_mut() (line 113): a RefCell panics when it is borrowed.
BorrowTables(c) ==
    /\ panicked = "none"
    /\ stack # <<>> /\ Top = c
    /\ pc[c] = "mk_closure"
    /\ IF tablesBorrow # None
       THEN /\ panicked' = "BorrowMutError"
            /\ UNCHANGED <<tablesBorrow, pc>>
       ELSE /\ tablesBorrow' = Some(c)
            /\ pc' = [pc EXCEPT ![c] = "borrowed"]
            /\ UNCHANGED panicked
    /\ UNCHANGED <<pool, subst, stack, expectedTy, expectedSig, expectedKind,
                   declSig, closureGenerics, closureSubsts, interior, retTy, closure_tys,
                   closure_kinds, poolScans, nextTyVar>>

\* tables.closure_tys_mut().insert(hir_id, sig) (line 114), sig being the
\* tupled signature of lines 99-105.
InsertSigAt(c, hir_id) ==
    /\ panicked = "none"
    /\ stack # <<>> /\ Top = c
    /\ pc[c] = "borrowed"
    /\ closure_tys' = [closure_tys EXCEPT ![hir_id] = Some(TupledSig(declSig[c][1]))]
    /\ pc' = [pc EXCEPT ![c] = "sig_inserted"]
    /\ UNCHANGED <<pool, subst, stack, expectedTy, expectedSig, expectedKind,
                   declSig, closureGenerics, closureSubsts, interior, retTy, closure_kinds,
                   tablesBorrow, poolScans, nextTyVar, panicked>>

\* A variant that keys the entry by the outermost closure being checked.
InsertSigOutermost(c) == InsertSigAt(c, stack[1])

InsertSig(c) == InsertSigAt(c, c)

\* match opt_kind (lines 115-120).
InsertKind(c) ==
    /\ panicked = "none"
    /\ stack # <<>> /\ Top = c
    /\ pc[c] = "sig_inserted"
    /\ IF expectedKind[c] # None
       THEN closure_kinds' = [closure_kinds EXCEPT ![c] = Some(<<expectedKind[c][1], None>>)]
       ELSE UNCHANGED closure_kinds
    /\ pc' = [pc EXCEPT ![c] = "kind_matched"]
    /\ UNCHANGED <<pool, subst, stack, expectedTy, expectedSig, expectedKind,
                   declSig, closureGenerics, closureSubsts, interior, retTy, closure_tys,
                   tablesBorrow, poolScans, nextTyVar, panicked>>

\* The borrow ends with its block (line 121) and closure_type is returned
\* (line 123).
ReturnClosure(c) ==
    /\ panicked = "none"
    /\ stack # <<>> /\ Top = c
    /\ pc[c] = "kind_matched"
    /\ tablesBorrow' = None
    /\ retTy' = [retTy EXCEPT ![c] = Some(TyClosure(c, closureSubsts[c][1]))]
    /\ pc' = [pc EXCEPT ![c] = "returned"]
    /\ stack' = Pop
    /\ UNCHANGED <<pool, subst, expectedTy, expectedSig, expectedKind, declSig,
                   closureGenerics, closureSubsts, interior, closure_tys, closure_kinds,
                   poolScans, nextTyVar, panicked>>

(***************************************************************************)
(* Spec: closure expressions are checked one after the other, a closure in *)
(* the body of another one while check_fn runs on that body.               *)
(***************************************************************************)
ScenarioPool == << Projection("Fn", TyVar(1), ArgPair, TyBool) >>

\* A pool whose only projection on variable 1 has a scalar argument, and a
\* pool with no Fn-family obligation on variable 1.
ScalarPool ==
    << Trait("FnOnce", TyVar(3)),
       Projection("FnMut", TyVar(1), TyI32, TyBool) >>

UnrelatedPool ==
    << Projection("Iterator", TyVar(1), TyTuple(<<TyBool>>), TyI32),
       OtherPredicate("ClosureKind", "Fn", TyVar(1)) >>

CheckedExpectedTys ==
    { None,
      Some(TyVar(1)),
      Some(TyI32) }

Init ==
    /\ pool \in {ScenarioPool, ScalarPool, UnrelatedPool}
    /\ subst = (1 :> None) @@ (2 :> Some(TyVar(1))) @@ (3 :> Some(TyTuple(<<TyBool>>)))
    /\ InitClosures

Next ==
    \/ \E c \in ClosureIds, expected \in CheckedExpectedTys : Resolve(c, expected)
    \/ \E c \in ClosureIds, decl \in Decls, generics \in Generics :
          CheckClosure(c, decl, generics)
    \/ \E c \in ClosureIds, int \in Interiors : CheckFnReturns(c, int)
    \/ \E c \in ClosureIds : BorrowTables(c)
    \/ \E c \in ClosureIds : InsertSig(c)
    \/ \E c \in ClosureIds : InsertKind(c)
    \/ \E c \in ClosureIds : ReturnClosure(c)

Spec == Init /\ [][Next]_vars

(***************************************************************************)
(* SpecDeduce: the deduction alone, for the first closure expression and   *)
(* every pool, binding and expected type.                                  *)
(***************************************************************************)
InitDeduce ==
    /\ pool \in Pools
    /\ subst \in Substs
    /\ InitClosures

NextDeduce == \E expected \in ExpectedTys : Resolve(1, expected)

SpecDeduce == InitDeduce /\ [][NextDeduce]_vars

(***************************************************************************)
(* Properties.                                                             *)
(***************************************************************************)
Invoked(c) == pc[c] # "idle"

ExpectedVar(c) ==
    /\ Invoked(c)
    /\ expectedTy[c] # None
    /\ expectedTy[c][1].k = "TyInfer"

ExpectedDynamic(c) ==
    /\ Invoked(c)
    /\ expectedTy[c] # None
    /\ expectedTy[c][1].k = "TyDynamic"

ExpectedFnPtr(c) ==
    /\ Invoked(c)
    /\ expectedTy[c] # None
    /\ expectedTy[c][1].k = "TyFnPtr"

\* The self type of obligation i shallowly resolves to the variable v.
SelfIs(i, v) == shallow_resolve(subst, pool[i].self_ty) = TyVar(v)

\* The kinds of the obligations that count for the variable v.
CountingKinds(v) ==
    { pool[i].def_id : i \in { j \in 1 .. Len(pool) :
          /\ pool[j].pred \in {"Projection", "Trait"}
          /\ SelfIs(j, v)
          /\ pool[j].def_id \in ClosureKinds } }

MostRestrictive(kinds) ==
    CHOOSE k \in kinds : \A j \in kinds : KindOrd(k) <= KindOrd(j)

\* C1: for an expected type that is the unresolved variable v, the deduced
\* kind is the most restrictive kind (Fn < FnMut < FnOnce) among the
\* projection and trait obligations whose self type shallowly resolves to v
\* and whose trait is in the Fn family, and None exactly when there is no
\* such obligation.
C1_KindIsMostRestrictive ==
    \A c \in ClosureIds :
        ExpectedVar(c) =>
            LET kinds == CountingKinds(expectedTy[c][1].vid)
            IN  IF kinds = {} THEN expectedKind[c] = None
                ELSE expectedKind[c] = Some(MostRestrictive(kinds))

\* C1, its case: all three kinds are present for the variable, FnMut
\* through a projection that yields no signature, and the least restrictive
\* kind comes first in the pool.
C1_Witness ==
    \E c \in ClosureIds :
        /\ ExpectedVar(c)
        /\ CountingKinds(expectedTy[c][1].vid) = ClosureKinds
        /\ expectedKind[c] = Some("Fn")
        /\ pool[1].def_id = "FnOnce"
        /\ \E i \in 1 .. Len(pool) :
              /\ pool[i].pred = "Projection"
              /\ pool[i].def_id = "FnMut"
              /\ resolve_type_vars_if_possible(subst, pool[i].arg).k # "TyTuple"

\* A projection whose argument, resolved as far as possible, is a tuple.
TupleArg(p) == resolve_type_vars_if_possible(subst, p.arg).k = "TyTuple"

\* The signature a projection with a tuple argument describes.
SigOfTuple(p) ==
    [inputs |-> resolve_type_vars_if_possible(subst, p.arg).tys,
     output |-> resolve_type_vars_if_possible(subst, p.ty),
     variadic |-> FALSE, unsafety |-> "Normal", abi |-> "Rust"]

\* The projections a deduction for closure c reads: the pool's on the
\* type-variable path, the bounds of the trait object on the object path.
ProjectionsRead(c) ==
    IF ExpectedVar(c)
    THEN { pool[i] : i \in { j \in 1 .. Len(pool) : pool[j].pred = "Projection" } }
    ELSE IF ExpectedDynamic(c)
    THEN { expectedTy[c][1].projection_bounds[i] :
              i \in 1 .. Len(expectedTy[c][1].projection_bounds) }
    ELSE {}

\* C3: a projection whose argument does not resolve to a tuple yields no
\* signature, and on both paths a deduced signature is the one of a
\* projection whose argument resolves to a tuple.
C3_NonTupleYieldsNothing ==
    \A c \in ClosureIds :
        /\ \A p \in ProjectionsRead(c) :
              ~TupleArg(p) => deduce_sig_from_projection(subst, with_self_ty(p, TyErr)) = None
        /\ (ExpectedVar(c) \/ ExpectedDynamic(c)) /\ expectedSig[c] # None =>
              \E p \in ProjectionsRead(c) :
                  TupleArg(p) /\ expectedSig[c] = Some(SigOfTuple(p))

\* C3, its case: the only Fn-family projections on the variable have a
\* scalar and a still unresolved argument; no signature is deduced although
\* a kind is.
C3_Witness ==
    \E c \in ClosureIds :
        /\ ExpectedVar(c)
        /\ expectedTy[c][1].vid = 1
        /\ Len(pool) = 2
        /\ pool[1] = Projection("FnMut", TyVar(1), TyI32, TyBool)
        /\ pool[2] = Projection("FnOnce", TyVar(1), TyVar(3), TyI32)
        /\ subst[3] = None
        /\ expectedSig[c] = None
        /\ expectedKind[c] = Some("FnMut")

\* C4: an expected function pointer type with signature S yields
\* (Some(S), Some(Fn)) whatever the pool holds, and the pool is not scanned.
C4_FnPtrShortcut ==
    \A c \in ClosureIds :
        ExpectedFnPtr(c) =>
            /\ expectedSig[c] = Some(expectedTy[c][1].sig)
            /\ expectedKind[c] = Some("Fn")
            /\ poolScans[c] = 0

\* C4, its case: fn(i32) -> bool is expected while the pool holds an FnOnce
\* obligation and a projection with another signature.
C4_Witness ==
    \E c \in ClosureIds :
        /\ ExpectedFnPtr(c)
        /\ expectedTy[c][1].sig = SigI32ToBool
        /\ expectedSig[c] = Some(SigI32ToBool)
        /\ expectedKind[c] = Some("Fn")
        /\ Len(pool) = 2
        /\ pool[1] = Projection("FnOnce", TyVar(1), TyVar(3), TyI32)
        /\ pool[2] = Projection("Fn", TyVar(1), ArgPair, TyBool)
        /\ subst[3] # None

\* Obligation i is a projection on the variable v from which a signature
\* can be made.
Qualifies(i, v) ==
    /\ pool[i].pred = "Projection"
    /\ SelfIs(i, v)
    /\ pool[i].def_id \in ClosureKinds
    /\ TupleArg(pool[i])

\* C7: for an expected type that is the unresolved variable v, the deduced
\* signature is the one of the first obligation in pool order that is an
\* Fn-family projection on v with a tuple argument: its inputs are the
\* tuple's elements, its output the projected type, not variadic; it is
\* None when there is no such obligation.  The pool holding only
\* <v as Fn<(i32, i32)>>::Output == bool yields (i32, i32) -> bool and Fn.
C7_FirstProjectionWins ==
    \A c \in ClosureIds :
        ExpectedVar(c) =>
            LET v == expectedTy[c][1].vid
                hits == { i \in 1 .. Len(pool) : Qualifies(i, v) }
            IN  /\ IF hits = {} THEN expectedSig[c] = None
                   ELSE LET first == CHOOSE i \in hits : \A j \in hits : i <= j
                        IN  expectedSig[c] = Some(SigOfTuple(pool[first]))
                /\ pool = ScenarioPool /\ v = 1 =>
                      /\ expectedSig[c] =
                            Some(mk_fn_sig(<<TyI32, TyI32>>, TyBool, FALSE, "Normal", "Rust"))
                      /\ expectedKind[c] = Some("Fn")

\* C7, its case: a projection on the variable that is rejected comes first,
\* two projections with different signatures follow, and the signature of
\* the earlier of the two is deduced.
C7_Witness ==
    \E c \in ClosureIds :
        /\ ExpectedVar(c)
        /\ expectedTy[c][1].vid = 1
        /\ Len(pool) = 3
        /\ pool[1].pred = "Projection" /\ SelfIs(1, 1) /\ ~Qualifies(1, 1)
        /\ Qualifies(2, 1) /\ Qualifies(3, 1)
        /\ SigOfTuple(pool[2]) # SigOfTuple(pool[3])
        /\ expectedSig[c] = Some(SigOfTuple(pool[2]))

\* C8: for an expected trait object type, the deduced signature is the one
\* of the first projection bound of an Fn-family trait with a tuple
\* argument (None without one), the deduced kind is the Fn-family kind of
\* the principal (None without a principal or for another trait), and the
\* pool is not scanned.  An object with principal FnOnce and no projection
\* bound yields (None, Some(FnOnce)).
C8_TraitObject ==
    \A c \in ClosureIds :
        ExpectedDynamic(c) =>
            LET bounds == expectedTy[c][1].projection_bounds
                principal == expectedTy[c][1].principal
                hits == { i \in 1 .. Len(bounds) :
                            bounds[i].def_id \in ClosureKinds /\ TupleArg(bounds[i]) }
            IN  /\ IF hits = {} THEN expectedSig[c] = None
                   ELSE LET first == CHOOSE i \in hits : \A j \in hits : i <= j
                        IN  expectedSig[c] = Some(SigOfTuple(bounds[first]))
                /\ IF principal # None /\ principal[1] \in ClosureKinds
                   THEN expectedKind[c] = principal
                   ELSE expectedKind[c] = None
                /\ poolScans[c] = 0
                /\ principal = Some("FnOnce") /\ bounds = <<>> =>
                      expectedSig[c] = None /\ expectedKind[c] = Some("FnOnce")

\* C8, its case: the object has no principal and an FnMut projection bound,
\* while the pool holds an Fn projection on a variable: the signature is the
\* bound's, no kind is deduced.
C8_Witness ==
    \E c \in ClosureIds :
        /\ ExpectedDynamic(c)
        /\ expectedTy[c][1].principal = None
        /\ Len(expectedTy[c][1].projection_bounds) = 1
        /\ expectedSig[c] = Some(mk_fn_sig(<<>>, TyI32, FALSE, "Normal", "Rust"))
        /\ expectedKind[c] = None
        /\ pool = ScenarioPool

\* The two outcomes of an invocation for closure c.
ClosureOutcome(c) ==
    /\ interior[c] = Some(None)
    /\ retTy[c] = Some(TyClosure(c, closureSubsts[c][1]))
    /\ closure_tys[c] # None
    /\ expectedKind[c] # None => closure_kinds[c] = Some(<<expectedKind[c][1], None>>)

GeneratorOutcome(c) ==
    /\ interior[c] # None
    /\ interior[c][1] # None
    /\ retTy[c] = Some(TyGenerator(c, closureSubsts[c][1], interior[c][1][1]))
    /\ closure_tys[c] = None
    /\ closure_kinds[c] = None

ExactlyOneOutcome(c) ==
    /\ ClosureOutcome(c) \/ GeneratorOutcome(c)
    /\ ~(ClosureOutcome(c) /\ GeneratorOutcome(c))

\* C2, as stated: every invocation that has ended, by returning or by
\* aborting, has exactly one of the two outcomes.
C2_EveryInvocationHasOutcome ==
    \A c \in ClosureIds :
        pc[c] \in {"returned", "ice"} => ExactlyOneOutcome(c)

\* C2, amended: every invocation that has returned has exactly one of the
\* two outcomes: a closure type with a signature entry (and the kind entry
\* when a kind was deduced), or a generator type with the interior and no
\* entry at all.
C2_ReturnedHasExactlyOneOutcome ==
    \A c \in ClosureIds :
        pc[c] = "returned" => ExactlyOneOutcome(c)

\* C2, its case: a generator was returned for a closure for which a kind
\* had been deduced, and the tables hold nothing for it.
C2_Witness ==
    \E c \in ClosureIds :
        /\ pc[c] = "returned"
        /\ retTy[c][1].k = "TyGenerator"
        /\ expectedKind[c] # None
        /\ expectedSig[c] # None
        /\ closure_tys[c] = None
        /\ closure_kinds[c] = None

\* C5: an entry of closure_tys or closure_kinds, once written, is never
\* changed or removed, and an entry is written only under the id of the
\* closure whose invocation is running.
C5_SingleAssignment ==
    [][\A k \in ClosureIds :
          /\ closure_tys[k] # None => closure_tys'[k] = closure_tys[k]
          /\ closure_kinds[k] # None => closure_kinds'[k] = closure_kinds[k]
          /\ (closure_tys'[k] # closure_tys[k] \/ closure_kinds'[k] # closure_kinds[k]) =>
                stack # <<>> /\ Top = k]_vars

\* C5, its case: a closure nested in the body of another one has written
\* both its entries while the outer one has none yet.
C5_Witness ==
    \E outer \in ClosureIds, inner \in ClosureIds :
        /\ stack = <<outer, inner>>
        /\ pc[inner] = "kind_matched"
        /\ closure_tys[inner] # None
        /\ closure_kinds[inner] # None
        /\ closure_tys[outer] = None
        /\ closure_kinds[outer] = None

InBorrowScope(c) == pc[c] \in {"borrowed", "sig_inserted", "kind_matched"}

\* C6: no invocation holds the borrow of the tables before its own call of
\* check_fn has returned or after it has returned itself; the borrow is
\* held by the running invocation alone, over both inserts; borrow_mut
\* never finds the tables borrowed; and no closure has a kind entry without
\* a signature entry.
C6_BorrowScope ==
    /\ panicked # "BorrowMutError"
    /\ \A c \in ClosureIds :
          /\ pc[c] \in {"idle", "check_closure", "check_fn", "mk_closure", "returned", "ice"} =>
                tablesBorrow # Some(c)
          /\ InBorrowScope(c) => tablesBorrow = Some(c) /\ stack # <<>> /\ Top = c
          /\ closure_kinds[c] # None => closure_tys[c] # None
    /\ tablesBorrow # None => tablesBorrow[1] \in ClosureIds

\* C6, its case: a nested closure holds the borrow between its two inserts
\* while check_fn of the enclosing closure is on the stack.
C6_Witness ==
    \E outer \in ClosureIds, inner \in ClosureIds :
        /\ stack = <<outer, inner>>
        /\ pc[outer] = "check_fn"
        /\ pc[inner] = "sig_inserted"
        /\ tablesBorrow = Some(inner)
        /\ expectedKind[inner] # None

\* C9: the recorded signature has one input, the tuple of the inputs of the
\* declared signature in their order, and its output, variadic flag,
\* unsafety and abi; it is recorded for every ordinary closure, and the kind
\* entry (kind, None) is recorded exactly when a kind was deduced, with
\* that kind.
C9_RecordedSignature ==
    \A c \in ClosureIds :
        /\ closure_tys[c] # None =>
              LET recorded == closure_tys[c][1]
                  declared == declSig[c][1]
              IN  /\ Len(recorded.inputs) = 1
                  /\ recorded.inputs[1] = TyTuple(declared.inputs)
                  /\ recorded.output = declared.output
                  /\ recorded.variadic = declared.variadic
                  /\ recorded.unsafety = declared.unsafety
                  /\ recorded.abi = declared.abi
        /\ pc[c] \in {"kind_matched", "returned"} /\ interior[c] = Some(None) =>
              /\ closure_tys[c] # None
              /\ IF expectedKind[c] = None THEN closure_kinds[c] = None
                 ELSE closure_kinds[c] = Some(<<expectedKind[c][1], None>>)

\* C9, its case: an ordinary closure with two declared inputs, for which a
\* kind was deduced, has returned after one without a deduced kind.
C9_Witness ==
    \E c \in ClosureIds, d \in ClosureIds :
        /\ pc[c] = "returned" /\ pc[d] = "returned"
        /\ closure_tys[c] # None
        /\ Len(declSig[c][1].inputs) = 2
        /\ closure_tys[c][1].inputs = <<TyTuple(declSig[c][1].inputs)>>
        /\ closure_kinds[c] = Some(<<"FnMut", None>>)
        /\ closure_tys[d] # None
        /\ closure_kinds[d] = None

HasRegionParam(c) ==
    /\ closureGenerics[c] # None
    /\ \E i \in 1 .. Len(closureGenerics[c][1]) : closureGenerics[c][1][i] = "Region"

\* C10: an invocation fails exactly when the closure's own generics hold a
\* region parameter, by span_bug; then check_fn was not called for it, no
\* type was returned and the tables hold nothing for it.  Without a region
\* parameter the invocation goes on to check_fn, also with no hint deduced.
C10_OnlyRegionParamFails ==
    /\ panicked \in {"none", "span_bug"}
    /\ panicked = "span_bug" <=> \E c \in ClosureIds : pc[c] = "ice"
    /\ \A c \in ClosureIds :
          /\ pc[c] = "ice" =>
                /\ HasRegionParam(c)
                /\ stack # <<>> /\ Top = c
                /\ closureSubsts[c] = None
                /\ interior[c] = None
                /\ retTy[c] = None
                /\ closure_tys[c] = None
                /\ closure_kinds[c] = None
          /\ HasRegionParam(c) => pc[c] = "ice"
          /\ pc[c] \notin {"idle", "check_closure", "ice"} =>
                ~HasRegionParam(c) /\ closureSubsts[c] # None

\* C10, its case: a closure with a region parameter, nested in the body of
\* a closure that went on to check_fn with no hint, has failed.
C10_Witness ==
    \E outer \in ClosureIds, inner \in ClosureIds :
        /\ stack = <<outer, inner>>
        /\ pc[outer] = "check_fn"
        /\ expectedSig[outer] = None /\ expectedKind[outer] = None
        /\ expectedTy[outer] = Some(TyVar(1))
        /\ pc[inner] = "ice"
        /\ expectedTy[inner] = Some(TyI32)
        /\ panicked = "span_bug"

====
